---- MODULE Spec2Model ----
(***************************************************************************)
(* Model of the automation control loop of linkedin-job-agent:             *)
(*   - PlaywrightMCPClient   (src/src/agent/claudeAgent.js)                *)
(*   - LLMAgent              (src/src/agent/ollamaJobAgent.js)             *)
(*   - MCPClaudeJobAgent and MCPBrowserToolExecutor (src/unnamed/part_007) *)
(* The classes are independent; `component` selects which one a behaviour  *)
(* exercises.  "reader" behaviours exercise the client's stdout listener   *)
(* (handleData) byte by byte, "client" behaviours message by message.      *)
(* "processor" and "executor" behaviours reduce one snapshot of the page:  *)
(*   - SnapshotProcessor     (src/SNAPSHOT-PROCESSOR-TEST-RESULTS.md)      *)
(*   - MCPBrowserToolExecutor.takeSnapshot (src/unnamed/part_007)          *)
(* "conversation" behaviours follow the message history of applyToJob,     *)
(* "main" behaviours the start-up sequence of main() (src/src/index.js),   *)
(* "simple" behaviours SimpleJobAgent (src/src/agent/browserTools.js).     *)
(***************************************************************************)
EXTENDS Integers, Sequences, FiniteSets, TLC

\* Number of sendRequest calls a behaviour of the client may make.
MaxRequests == 3

VARIABLES
    component,        \* which class the behaviour exercises
    \* ---- PlaywrightMCPClient ----
    process,          \* this.process: "null" or "spawned"
    child,            \* the OS child process: "none", "up", "exited"
    messageId,        \* this.messageId
    pendingRequests,  \* keys of this.pendingRequests
    timers,           \* ids whose setTimeout callback has not run yet
    received,         \* ids of the requests written to a live child's stdin
    settled,          \* per id, the resolve / reject invocations made so far
    last,             \* the operation of the client that ran last
    node,             \* the Node process of the agent: "running" or "exited"
    \* ---- the stdout listener of PlaywrightMCPClient ----
    pipe,             \* bytes the child has written that no data event delivered yet
    sent,             \* the characters the child has written so far
    decoded,          \* the text the data events have decoded so far
    buffer,           \* this.buffer
    dispatched,       \* the messages handed to handleMessage so far
    \* ---- SnapshotProcessor and MCPBrowserToolExecutor.takeSnapshot ----
    raw,              \* the snapshot text the page gives (this.lastSnapshot)
    filtered,         \* the result of the first pass (filtered / filteredSnapshot)
    triaged,          \* the text handed to the Policy
    stage,            \* the reduction applied: "input" while none was
    pageState,        \* this.pageState
    snapshotCount,    \* this.snapshotCount
    \* ---- MCPClaudeJobAgent: the conversation with the Policy ----
    conversationHistory,  \* this.conversationHistory, by role and content
    recentHistory,    \* the messages of the request sent last
    convPc,           \* position in applyToJob
    convIteration,    \* iteration
    convComplete,     \* taskComplete
    \* ---- JobApplicationAgent: main ----
    mainPc,           \* position in main
    startOk,          \* start() of the client has returned
    wire,             \* the methods of the requests written to the MCP server
    \* ---- SimpleJobAgent ----
    simplePc,         \* position in applyToJob
    step,             \* step of the for loop
    clicked,          \* the label of the control clicked last, <<>> if none
    \* ---- LLMAgent ----
    stepCount,        \* stepCount of _navigateApplicationForm
    llmPc,            \* where applyToJob / _navigateApplicationForm stands
    decision,         \* the decision _getDecision returned last
    confirmation,     \* Enter was pressed at the wait the run is in or just left
    llmPolicyCalls,   \* calls of _getDecision made by the form loop
    lastClick,        \* the last click issued to the page
    llmResult,        \* how applyToJob ended
    llmFresh,         \* a snapshot was taken since the page was last acted on
    \* ---- MCPClaudeJobAgent with its MCPBrowserToolExecutor ----
    policy,           \* the Policy of the run: "free" or "sameClick"
    iteration,        \* iteration of applyToJob
    mcpPc,            \* where applyToJob stands
    taskComplete,     \* taskComplete of applyToJob
    finalResult,      \* finalResult of applyToJob
    blocksLeft,       \* tool_use blocks of the current response still to run
    confirmed,        \* waitForUserInput has resolved in this run
    snapRefs,         \* refs of the snapshot returned to the Policy last
    lastAction,       \* the last ref-carrying request sent to the MCP server
    mcpPolicyCalls,   \* calls of anthropic.messages.create
    completion        \* input.success of the task_complete seen last, or "none"

clientVars == <<process, child, messageId, pendingRequests, timers, received,
                settled, last>>

llmVars == <<stepCount, llmPc, decision, confirmation, llmPolicyCalls, lastClick,
             llmResult, llmFresh>>

mcpVars == <<policy, iteration, mcpPc, taskComplete, finalResult, blocksLeft,
             confirmed, snapRefs, lastAction, mcpPolicyCalls, completion>>

readerVars == <<pipe, sent, decoded, buffer, dispatched>>

triageVars == <<raw, filtered, triaged, stage, pageState, snapshotCount>>

convVars == <<conversationHistory, recentHistory, convPc, convIteration, convComplete>>

mainVars == <<mainPc, startOk, wire>>

simpleVars == <<simplePc, step, clicked>>

appVars == <<convVars, mainVars, simpleVars>>

vars == <<component, node, readerVars, triageVars, appVars, clientVars, llmVars,
          mcpVars>>

Ids == 1..MaxRequests

\* A message without an id (a notification): message.id === undefined.
NoId == 0

NoOp == [op |-> "none", id |-> NoId, error |-> FALSE, wasPending |-> FALSE]

(***************************************************************************)
(* PlaywrightMCPClient                                                     *)
(***************************************************************************)

ClientInit ==
    /\ process = "null"
    /\ child = "none"
    /\ messageId = 0
    /\ pendingRequests = {}
    /\ timers = {}
    /\ received = {}
    /\ settled = [i \in Ids |-> <<>>]
    /\ last = NoOp
    /\ node = "running"

\* start(): spawn the server and wire the stdout / exit listeners.  The
\* initialize and tools/list requests it then awaits are SendRequest steps.
Start ==
    /\ component \in {"client", "reader"}
    /\ node = "running"
    /\ process = "null"
    /\ child = "none"
    /\ process' = "spawned"
    /\ child' = "up"
    /\ last' = [NoOp EXCEPT !.op = "start"]
    /\ UNCHANGED <<component, node, readerVars, triageVars, appVars, llmVars, mcpVars, messageId, pendingRequests, timers, received, settled>>

\* sendRequest that takes the counter's value without incrementing it.
SendRequest_ReuseId ==
    /\ component \in {"client", "reader"}
    /\ node = "running"
    /\ messageId < MaxRequests
    /\ LET id == IF messageId = 0 THEN 1 ELSE messageId IN
        /\ messageId' = id
        /\ pendingRequests' = pendingRequests \cup {id}
        /\ IF process = "null"
             THEN /\ settled' = [settled EXCEPT ![id] = Append(@, "TypeError")]
                  /\ UNCHANGED <<timers, received>>
             ELSE /\ received' = IF child = "up" THEN received \cup {id} ELSE received
                  /\ timers' = timers \cup {id}
                  /\ UNCHANGED settled
        /\ last' = [NoOp EXCEPT !.op = "sendRequest", !.id = id]
    /\ UNCHANGED <<component, node, readerVars, triageVars, appVars, llmVars, mcpVars, process, child>>

\* sendRequest(method, params): the Promise executor.  The entry is stored
\* before the write; with this.process === null the write throws inside the
\* executor, which rejects the promise and skips setTimeout.
SendRequest ==
    /\ component \in {"client", "reader"}
    /\ node = "running"
    /\ messageId < MaxRequests
    /\ LET id == messageId + 1 IN
        /\ messageId' = id
        /\ pendingRequests' = pendingRequests \cup {id}
        /\ IF process = "null"
             THEN /\ settled' = [settled EXCEPT ![id] = Append(@, "TypeError")]
                  /\ UNCHANGED <<timers, received>>
             ELSE /\ received' = IF child = "up" THEN received \cup {id} ELSE received
                  /\ timers' = timers \cup {id}
                  /\ UNCHANGED settled
        /\ last' = [NoOp EXCEPT !.op = "sendRequest", !.id = id]
    /\ UNCHANGED <<component, node, readerVars, triageVars, appVars, llmVars, mcpVars, process, child>>

\* Timeout without the has(id) test: rejects whatever happened before.
Timeout_NoHasCheck(id) ==
    /\ component = "client"
    /\ node = "running"
    /\ id \in timers
    /\ timers' = timers \ {id}
    /\ pendingRequests' = pendingRequests \ {id}
    /\ settled' = [settled EXCEPT ![id] = Append(@, "timeout")]
    /\ last' = [NoOp EXCEPT !.op = "timeout", !.id = id,
                            !.wasPending = (id \in pendingRequests)]
    /\ UNCHANGED <<component, node, readerVars, triageVars, appVars, llmVars, mcpVars, process, child, messageId, received>>

\* Timeout that rejects but leaves the entry in the table.
Timeout_NoDelete(id) ==
    /\ component = "client"
    /\ node = "running"
    /\ id \in timers
    /\ timers' = timers \ {id}
    /\ IF id \in pendingRequests
         THEN settled' = [settled EXCEPT ![id] = Append(@, "timeout")]
         ELSE UNCHANGED settled
    /\ UNCHANGED pendingRequests
    /\ last' = [NoOp EXCEPT !.op = "timeout", !.id = id,
                            !.wasPending = (id \in pendingRequests)]
    /\ UNCHANGED <<component, node, readerVars, triageVars, appVars, llmVars, mcpVars, process, child, messageId, received>>

\* The setTimeout callback of sendRequest (30 s after the call).
Timeout(id) ==
    /\ component = "client"
    /\ node = "running"
    /\ id \in timers
    /\ timers' = timers \ {id}
    /\ IF id \in pendingRequests
         THEN /\ pendingRequests' = pendingRequests \ {id}
              /\ settled' = [settled EXCEPT ![id] = Append(@, "timeout")]
         ELSE UNCHANGED <<pendingRequests, settled>>
    /\ last' = [NoOp EXCEPT !.op = "timeout", !.id = id,
                            !.wasPending = (id \in pendingRequests)]
    /\ UNCHANGED <<component, node, readerVars, triageVars, appVars, llmVars, mcpVars, process, child, messageId, received>>

\* handleMessage that hands a response to the oldest waiter instead of the
\* waiter registered under the message's id.
HandleMessage_OldestWaiter(msg) ==
    /\ component = "client"
    /\ node = "running"
    /\ child # "none"
    /\ IF msg.id # NoId /\ pendingRequests # {}
         THEN LET w == CHOOSE i \in pendingRequests : \A j \in pendingRequests : i <= j IN
              /\ pendingRequests' = pendingRequests \ {w}
              /\ settled' = [settled EXCEPT ![w] =
                               Append(@, IF msg.error THEN "error" ELSE "result")]
         ELSE UNCHANGED <<pendingRequests, settled>>
    /\ last' = [op |-> "handleMessage", id |-> msg.id, error |-> msg.error,
                wasPending |-> (msg.id \in pendingRequests)]
    /\ UNCHANGED <<component, node, readerVars, triageVars, appVars, llmVars, mcpVars, process, child, messageId, timers, received>>

\* handleMessage(message) for one parsed line of the child's stdout.
HandleMessage(msg) ==
    /\ component = "client"
    /\ node = "running"
    /\ child # "none"
    /\ IF msg.id # NoId /\ msg.id \in pendingRequests
         THEN /\ pendingRequests' = pendingRequests \ {msg.id}
              /\ settled' = [settled EXCEPT ![msg.id] =
                               Append(@, IF msg.error THEN "error" ELSE "result")]
         ELSE UNCHANGED <<pendingRequests, settled>>
    /\ last' = [op |-> "handleMessage", id |-> msg.id, error |-> msg.error,
                wasPending |-> (msg.id \in pendingRequests)]
    /\ UNCHANGED <<component, node, readerVars, triageVars, appVars, llmVars, mcpVars, process, child, messageId, timers, received>>

\* The messages the server can write: a result or an error for a request it
\* has read (any number of times, in any order), or a message without id.
ServerMessages == [id : received \cup {NoId}, error : BOOLEAN]

Receive == \E msg \in ServerMessages : HandleMessage(msg)

\* The child exits; the 'exit' listener of start() only logs.
ProcessExit ==
    /\ component = "client"
    /\ child = "up"
    /\ child' = "exited"
    /\ last' = IF node = "running" THEN [NoOp EXCEPT !.op = "exit"] ELSE last
    /\ UNCHANGED <<component, node, readerVars, triageVars, appVars, llmVars, mcpVars, process, messageId, pendingRequests, timers,
                   received, settled>>

\* close(): kill() signals the child and the handle is dropped; close() does
\* not wait for the exit, which is a later ProcessExit step.
Close ==
    /\ component = "client"
    /\ node = "running"
    /\ process # "null"
    /\ process' = "null"
    /\ last' = [NoOp EXCEPT !.op = "close"]
    /\ UNCHANGED <<component, node, readerVars, triageVars, appVars, llmVars, mcpVars, child, messageId, pendingRequests, timers, received,
                   settled>>

\* Ctrl+C while waitForUserInput holds stdin in raw mode: the '\u0003' branch
\* calls process.exit(0).  cleanup() is not run: nothing is sent to the child
\* and no promise is settled; the Node process is gone.
Interrupt ==
    /\ component = "client"
    /\ node = "running"
    /\ node' = "exited"
    /\ UNCHANGED <<component, readerVars, triageVars, appVars, clientVars, llmVars, mcpVars>>

ClientNext ==
    \/ Start
    \/ SendRequest
    \/ \E id \in Ids : Timeout(id)
    \/ Receive
    \/ ProcessExit
    \/ Close

(***************************************************************************)
(* The stdout listener of PlaywrightMCPClient: handleData                  *)
(***************************************************************************)

\* Number of characters the child writes in a behaviour of the reader.
MaxStream == 4

\* Lines are written in a reduced message syntax: the digit of the id of the
\* request answered, followed by the characters of the result string.
\* "U+00E9" is a character of two bytes in UTF-8, "x" a character that no
\* JSON text starts with, "LF" the newline.
StreamChars == {"1", "x", "U+00E9", "LF"}

\* The bytes the child writes for a character.
Encode(c) == IF c = "U+00E9" THEN <<"C3", "A9">> ELSE <<c>>

ReaderInit ==
    /\ pipe = <<>>
    /\ sent = <<>>
    /\ decoded = <<>>
    /\ buffer = <<>>
    /\ dispatched = <<>>

\* data.toString(): UTF-8 decoding of one Buffer by itself.  A byte sequence
\* cut by the end or the start of the Buffer decodes to U+FFFD.
RECURSIVE toString(_)
toString(data) ==
    IF data = <<>> THEN <<>>
    ELSE IF data[1] = "C3"
      THEN IF Len(data) >= 2 /\ data[2] = "A9"
             THEN <<"U+00E9">> \o toString(SubSeq(data, 3, Len(data)))
             ELSE <<"U+FFFD">> \o toString(Tail(data))
    ELSE IF data[1] = "A9"
      THEN <<"U+FFFD">> \o toString(Tail(data))
    ELSE <<data[1]>> \o toString(Tail(data))

\* text.split('\n'): the pieces between the newlines, at least one piece.
RECURSIVE split(_)
split(text) ==
    IF \A i \in 1..Len(text) : text[i] # "LF"
      THEN <<text>>
      ELSE LET i == CHOOSE k \in 1..Len(text) :
                        text[k] = "LF" /\ \A j \in 1..(k - 1) : text[j] # "LF"
           IN <<SubSeq(text, 1, i - 1)>> \o split(SubSeq(text, i + 1, Len(text)))

\* line.trim() is the empty string.
IsBlank(line) == \A i \in 1..Len(line) : line[i] \in {" ", "LF"}

\* JSON.parse(line) returns a message instead of throwing a SyntaxError.
ParseOK(line) ==
    /\ Len(line) >= 1
    /\ line[1] = "1"
    /\ \A i \in 2..Len(line) : line[i] \in {"U+00E9", "U+FFFD"}

\* JSON.parse(line) of a line that parses.
Parse(line) == [id |-> 1, text |-> Tail(line)]

\* handleMessage(message) on the table and the settlements `st`, for a
\* message without an error member.
HandleMessageOn(st, message) ==
    IF message.id \in st.pending
      THEN [st EXCEPT !.pending = @ \ {message.id},
                      !.settled[message.id] = Append(@, "result")]
      ELSE st

\* for (const line of lines) { if (line.trim()) { try { ... } catch { log } } }
RECURSIVE ForLines(_, _)
ForLines(lines, st) ==
    IF lines = <<>> THEN st
    ELSE LET line == Head(lines) IN
         ForLines(Tail(lines),
                  IF ~IsBlank(line) /\ ParseOK(line)
                    THEN HandleMessageOn(
                           [st EXCEPT !.dispatched = Append(@, Parse(line))],
                           Parse(line))
                    ELSE st)

\* handleData without the try / catch: the SyntaxError of the first line that
\* does not parse leaves the loop, after this.buffer was assigned.
HandleData_NoCatch(data) ==
    LET lines == split(buffer \o toString(data))
        bad == {i \in 1..(Len(lines) - 1) : ~IsBlank(lines[i]) /\ ~ParseOK(lines[i])}
        upto == IF bad = {} THEN Len(lines) - 1
                ELSE (CHOOSE i \in bad : \A j \in bad : i <= j) - 1
        st == ForLines(SubSeq(lines, 1, upto),
                       [pending |-> pendingRequests, settled |-> settled,
                        dispatched |-> dispatched])
    IN /\ buffer' = lines[Len(lines)]
       /\ decoded' = decoded \o toString(data)
       /\ pendingRequests' = st.pending
       /\ settled' = st.settled
       /\ dispatched' = st.dispatched

\* handleData(data): append, split, keep the last piece, handle the others.
HandleData(data) ==
    LET lines == split(buffer \o toString(data))
        st == ForLines(SubSeq(lines, 1, Len(lines) - 1),
                       [pending |-> pendingRequests, settled |-> settled,
                        dispatched |-> dispatched])
    IN /\ buffer' = lines[Len(lines)]
       /\ decoded' = decoded \o toString(data)
       /\ pendingRequests' = st.pending
       /\ settled' = st.settled
       /\ dispatched' = st.dispatched

\* The child writes one character of a line to its stdout; it answers only
\* a request it has read.
ChildWrites ==
    /\ component = "reader"
    /\ child = "up"
    /\ Len(sent) < MaxStream
    /\ \E c \in StreamChars :
          /\ c = "1" => 1 \in received
          /\ pipe' = pipe \o Encode(c)
          /\ sent' = Append(sent, c)
    /\ UNCHANGED <<component, node, triageVars, appVars, clientVars, llmVars, mcpVars, decoded,
                   buffer, dispatched>>

\* A 'data' event of this.process.stdout: the stream hands over any number
\* of the bytes it holds.
Data ==
    /\ component = "reader"
    /\ node = "running"
    /\ pipe # <<>>
    /\ \E k \in 1..Len(pipe) :
          /\ HandleData(SubSeq(pipe, 1, k))
          /\ pipe' = SubSeq(pipe, k + 1, Len(pipe))
    /\ last' = [NoOp EXCEPT !.op = "handleData"]
    /\ UNCHANGED <<component, node, triageVars, appVars, llmVars, mcpVars, process, child,
                   messageId, timers, received, sent>>

ReaderNext ==
    \/ ChildWrites
    \/ Data

(***************************************************************************)
(* LLMAgent: applyToJob from the call of _navigateApplicationForm on       *)
(***************************************************************************)

\* const maxSteps = 10 in _navigateApplicationForm.
maxSteps == 10

\* element_description values: the final submit control, or another control.
SubmitControl == "Submit application"
Descriptions == {"Next", SubmitControl}

\* What JSON.parse of the Policy's answer can yield, by decision.action.
\* "other" stands for any action string the if-chain does not name.
Decisions ==
    [action : {"submit", "click"}, element_description : Descriptions]
      \cup [action : {"fill", "pause_for_manual", "error", "other"},
            element_description : {"Next"}]

NoClick == [target |-> "none", via |-> "none", confirmed |-> FALSE, fresh |-> FALSE]
Running == [status |-> "running", reason |-> "none"]
Failed(r) == [status |-> "failed", reason |-> r]

LLMInit ==
    /\ stepCount = 0
    /\ llmPc = "loop"
    /\ decision = [action |-> "other", element_description |-> "Next"]
    /\ confirmation = FALSE
    /\ llmPolicyCalls = 0
    /\ lastClick = NoClick
    /\ llmFresh = FALSE
    /\ llmResult = Running

\* The while test without its bound.
LLMLoop_Unbounded ==
    /\ component = "llm"
    /\ llmPc = "loop"
    /\ stepCount' = stepCount + 1
    /\ llmPc' = "decide"
    /\ llmFresh' = TRUE
    /\ UNCHANGED <<component, node, readerVars, triageVars, appVars, clientVars, mcpVars, decision, confirmation, llmPolicyCalls,
                   lastClick, llmResult>>

\* while (stepCount < maxSteps) { stepCount++; delay; snapshot; filter ...
LLMLoop ==
    /\ component = "llm"
    /\ llmPc = "loop"
    /\ IF stepCount < maxSteps
         THEN /\ stepCount' = stepCount + 1
              /\ llmPc' = "decide"
              /\ llmFresh' = TRUE
         ELSE /\ llmPc' = "afterLoop"
              /\ UNCHANGED <<stepCount, llmFresh>>
    /\ UNCHANGED <<component, node, readerVars, triageVars, appVars, clientVars, mcpVars, decision, confirmation, llmPolicyCalls,
                   lastClick, llmResult>>

\* _getDecision: one Policy call; it returns the parsed object or throws
\* (API failure, no JSON object in the answer).
LLMGetDecision ==
    /\ component = "llm"
    /\ llmPc = "decide"
    /\ llmPolicyCalls' = llmPolicyCalls + 1
    /\ confirmation' = FALSE
    /\ \/ /\ \E d \in Decisions : decision' = d
          /\ llmPc' = "apply"
          /\ UNCHANGED llmResult
       \/ /\ llmPc' = "done"
          /\ llmResult' = Failed("Invalid JSON response from Claude")
          /\ UNCHANGED decision
    /\ UNCHANGED <<component, node, readerVars, triageVars, appVars, clientVars, mcpVars, stepCount, lastClick, llmFresh>>

\* _clickElement(description) called from branch `via`, `fresh` telling
\* whether a snapshot was taken since the page was last acted on: the click is
\* issued, or every locator strategy fails and it throws.
LLMClickElement(description, via, next, fresh) ==
    \/ /\ lastClick' = [target |-> description, via |-> via,
                        confirmed |-> confirmation, fresh |-> fresh]
       /\ llmFresh' = FALSE
       /\ llmPc' = next
       /\ UNCHANGED llmResult
    \/ /\ llmPc' = "done"
       /\ llmResult' = Failed("Could not click element")
       /\ UNCHANGED <<lastClick, llmFresh>>

\* _handleSubmit that clicks without waiting for Enter.
LLMHandleSubmit_NoWait ==
    /\ decision.action = "submit"
    /\ llmPc' = "submitClick"
    /\ UNCHANGED <<lastClick, llmResult, llmFresh>>

\* decision.action === 'submit': _handleSubmit up to `await _waitForEnter()`.
LLMHandleSubmit ==
    /\ decision.action = "submit"
    /\ llmPc' = "awaitConfirm"
    /\ UNCHANGED <<lastClick, llmResult, llmFresh>>

\* decision.action === 'click'.
LLMApplyClick ==
    /\ decision.action = "click"
    /\ LLMClickElement(decision.element_description, "click", "loop", llmFresh)

\* decision.action === 'fill': _fillFields fills the fields it can and
\* swallows its errors, then Next is clicked.
LLMApplyFill ==
    /\ decision.action = "fill"
    /\ \E filled \in BOOLEAN :
          LLMClickElement("Next", "fill", "loop", llmFresh /\ ~filled)

\* decision.action === 'pause_for_manual': _handlePause up to the wait.
LLMHandlePause ==
    /\ decision.action = "pause_for_manual"
    /\ llmPc' = "awaitResume"
    /\ UNCHANGED <<lastClick, llmResult, llmFresh>>

\* The error branch that logs the message and lets the loop go on.
LLMApplyError_Continues ==
    /\ decision.action = "error"
    /\ llmPc' = "loop"
    /\ UNCHANGED <<lastClick, llmResult, llmFresh>>

\* decision.action === 'error'.
LLMApplyError ==
    /\ decision.action = "error"
    /\ llmPc' = "done"
    /\ llmResult' = Failed("error_message")
    /\ UNCHANGED <<lastClick, llmFresh>>

\* No branch of the if-chain matches: the loop goes on.
LLMApplyOther ==
    /\ decision.action = "other"
    /\ llmPc' = "loop"
    /\ UNCHANGED <<lastClick, llmResult, llmFresh>>

\* The if-chain of _navigateApplicationForm that executes the decision.
LLMApply ==
    /\ component = "llm"
    /\ llmPc = "apply"
    /\ \/ LLMHandleSubmit
       \/ LLMApplyClick
       \/ LLMApplyFill
       \/ LLMHandlePause
       \/ LLMApplyError
       \/ LLMApplyOther
    /\ UNCHANGED <<component, node, readerVars, triageVars, appVars, clientVars, mcpVars, stepCount, decision, confirmation,
                   llmPolicyCalls>>

\* _handlePause that goes on with the decision after the wait, on the
\* snapshot taken before it.
LLMPressEnter_NoSnapshot ==
    /\ component = "llm"
    /\ llmPc \in {"awaitConfirm", "awaitResume"}
    /\ confirmation' = TRUE
    /\ llmPc' = IF llmPc = "awaitConfirm" THEN "submitClick" ELSE "decide"
    /\ llmFresh' = IF llmPc = "awaitConfirm" THEN llmFresh ELSE FALSE
    /\ UNCHANGED <<component, node, readerVars, triageVars, appVars, clientVars, mcpVars, stepCount, decision, llmPolicyCalls,
                   lastClick, llmResult>>

\* The user presses Enter: _waitForEnter resolves.
LLMPressEnter ==
    /\ component = "llm"
    /\ llmPc \in {"awaitConfirm", "awaitResume"}
    /\ confirmation' = TRUE
    /\ llmPc' = IF llmPc = "awaitConfirm" THEN "submitClick" ELSE "loop"
    /\ llmFresh' = IF llmPc = "awaitConfirm" THEN llmFresh ELSE FALSE
    /\ UNCHANGED <<component, node, readerVars, triageVars, appVars, clientVars, mcpVars, stepCount, decision, llmPolicyCalls,
                   lastClick, llmResult>>

\* _handleSubmit after the wait: the click on the submit control, then
\* `break` leaves the loop.
LLMSubmitClick ==
    /\ component = "llm"
    /\ llmPc = "submitClick"
    /\ LLMClickElement(decision.element_description, "submit", "afterLoop", llmFresh)
    /\ UNCHANGED <<component, node, readerVars, triageVars, appVars, clientVars, mcpVars, stepCount, decision, confirmation,
                   llmPolicyCalls>>

\* if (stepCount >= maxSteps) throw ...; otherwise applyToJob logs success.
LLMAfterLoop ==
    /\ component = "llm"
    /\ llmPc = "afterLoop"
    /\ llmPc' = "done"
    /\ llmResult' = IF stepCount >= maxSteps
                      THEN Failed("Exceeded maximum steps - possible infinite loop")
                      ELSE [status |-> "success", reason |-> "none"]
    /\ UNCHANGED <<component, node, readerVars, triageVars, appVars, clientVars, mcpVars, stepCount, decision, confirmation,
                   llmPolicyCalls, lastClick, llmFresh>>

LLMNext ==
    \/ LLMLoop
    \/ LLMGetDecision
    \/ LLMApply
    \/ LLMPressEnter
    \/ LLMSubmitClick
    \/ LLMAfterLoop

(***************************************************************************)
(* MCPClaudeJobAgent.applyToJob and MCPBrowserToolExecutor.execute         *)
(***************************************************************************)

\* this.maxIterations = 50.
maxIterations == 50

\* tool_use blocks in one response of the Policy.
MaxBlocks == 2

\* The ref of the final submit control, the ref of another control, and a
\* ref no snapshot ever shows.
SubmitRef == "e9"
Refs == {"e5", SubmitRef, "e999"}

\* The ref sets a snapshot of the page can show.
SnapshotRefs == {{}, {"e5"}, {"e5", SubmitRef}}

\* The tool_use blocks the Policy can return.  "wait" stands for the tools
\* that carry no ref (navigate, wait, scroll, press_key, an unknown name).
ToolCalls ==
    [name : {"click", "type_text"}, ref : Refs, success : {TRUE}]
      \cup [name : {"take_snapshot", "wait"}, ref : {"none"}, success : {TRUE}]
      \cup [name : {"task_complete"}, ref : {"none"}, success : BOOLEAN]

SameClick == [name |-> "click", ref |-> "e5", success |-> TRUE]

NoAction == [tool |-> "none", ref |-> "none", inSnapshot |-> FALSE,
             confirmed |-> FALSE, repeated |-> FALSE]
NoResult == [success |-> FALSE, message |-> "null"]
MaxIterationsResult == [success |-> FALSE, message |-> "Max iterations reached"]

MCPInit ==
    /\ iteration = 0
    /\ mcpPc = "loop"
    /\ taskComplete = FALSE
    /\ finalResult = NoResult
    /\ blocksLeft = 0
    /\ confirmed = FALSE
    /\ snapRefs = {}
    /\ lastAction = NoAction
    /\ mcpPolicyCalls = 0
    /\ completion = "none"

\* while (!taskComplete && iteration < this.maxIterations) { iteration++; ...
\* and, when the test fails, return finalResult.
MCPLoop ==
    /\ component = "mcp"
    /\ mcpPc = "loop"
    /\ IF ~taskComplete /\ iteration < maxIterations
         THEN /\ iteration' = iteration + 1
              /\ mcpPc' = "call"
         ELSE /\ mcpPc' = "done"
              /\ UNCHANGED iteration
    /\ UNCHANGED <<component, node, readerVars, triageVars, appVars, clientVars, llmVars, policy, taskComplete, finalResult,
                   blocksLeft, confirmed, snapRefs, lastAction, mcpPolicyCalls, completion>>

\* await this.anthropic.messages.create(...) and the dispatch on stop_reason.
MCPPolicyCall ==
    /\ component = "mcp"
    /\ mcpPc = "call"
    /\ mcpPolicyCalls' = mcpPolicyCalls + 1
    /\ \/ \* stop_reason === 'tool_use'
          /\ \E n \in 1..MaxBlocks :
                /\ policy = "sameClick" => n = 1
                /\ blocksLeft' = n
          /\ mcpPc' = "tools"
          /\ UNCHANGED <<taskComplete, finalResult>>
       \/ \* stop_reason === 'end_turn', the text asks for the confirmation
          /\ policy = "free"
          /\ mcpPc' = "awaitEnter"
          /\ UNCHANGED <<taskComplete, finalResult, blocksLeft>>
       \/ \* stop_reason === 'end_turn' with other text, or another stop_reason
          /\ policy = "free"
          /\ mcpPc' = "check"
          /\ UNCHANGED <<taskComplete, finalResult, blocksLeft>>
       \/ \* the call throws: the catch block of the loop
          /\ policy = "free"
          /\ mcpPc' = "loop"
          /\ taskComplete' = TRUE
          /\ finalResult' = [success |-> FALSE, message |-> "error.message"]
          /\ UNCHANGED blocksLeft
    /\ UNCHANGED <<component, node, readerVars, triageVars, appVars, clientVars, llmVars, policy, iteration, confirmed,
                   snapRefs, lastAction, completion>>

\* MCPBrowserToolExecutor.execute(name, input) with the page showing the refs
\* `shown`: the request goes to the MCP server as it is; an error of the call
\* is caught and returned as { error }.
Execute(call, shown) ==
    /\ snapRefs' = IF call.name = "take_snapshot" THEN shown ELSE snapRefs
    /\ lastAction' = IF call.name \in {"click", "type_text"}
                       THEN [tool |-> call.name, ref |-> call.ref,
                             inSnapshot |-> (call.ref \in snapRefs),
                             confirmed |-> confirmed,
                             repeated |-> (/\ lastAction.tool = call.name
                                           /\ lastAction.ref = call.ref)]
                       ELSE lastAction

\* One tool_use block of `for (const block of content)`.
MCPToolBlock(call, shown) ==
    /\ IF call.name = "task_complete"
         THEN /\ taskComplete' = TRUE
              /\ finalResult' = [success |-> call.success, message |-> "input.message"]
              /\ completion' = IF call.success THEN "success" ELSE "failure"
              /\ UNCHANGED <<snapRefs, lastAction>>
         ELSE /\ Execute(call, shown)
              /\ UNCHANGED <<taskComplete, finalResult, completion>>
    /\ blocksLeft' = blocksLeft - 1
    /\ mcpPc' = IF blocksLeft = 1 THEN "check" ELSE "tools"

MCPTool ==
    /\ component = "mcp"
    /\ mcpPc = "tools"
    /\ \E call \in ToolCalls, shown \in SnapshotRefs :
          /\ policy = "sameClick" => call = SameClick
          /\ MCPToolBlock(call, shown)
    /\ UNCHANGED <<component, node, readerVars, triageVars, appVars, clientVars, llmVars, policy, iteration, confirmed,
                   mcpPolicyCalls>>

\* The user presses Enter: waitForUserInput resolves and the confirmation
\* message is pushed to the conversation.
MCPPressEnter ==
    /\ component = "mcp"
    /\ mcpPc = "awaitEnter"
    /\ confirmed' = TRUE
    /\ mcpPc' = "check"
    /\ UNCHANGED <<component, node, readerVars, triageVars, appVars, clientVars, llmVars, policy, iteration, taskComplete,
                   finalResult, blocksLeft, snapRefs, lastAction, mcpPolicyCalls, completion>>

\* The end of the try block without the max-iterations test.
MCPCheck_NoAbort ==
    /\ component = "mcp"
    /\ mcpPc = "check"
    /\ mcpPc' = "loop"
    /\ UNCHANGED <<component, node, readerVars, triageVars, appVars, clientVars, llmVars, policy, iteration, taskComplete,
                   finalResult, blocksLeft, confirmed, snapRefs, lastAction,
                   mcpPolicyCalls, completion>>

\* if (iteration >= this.maxIterations) { finalResult = ...; taskComplete = true }
MCPCheck ==
    /\ component = "mcp"
    /\ mcpPc = "check"
    /\ mcpPc' = "loop"
    /\ IF iteration >= maxIterations
         THEN /\ finalResult' = MaxIterationsResult
              /\ taskComplete' = TRUE
         ELSE UNCHANGED <<finalResult, taskComplete>>
    /\ UNCHANGED <<component, node, readerVars, triageVars, appVars, clientVars, llmVars, policy, iteration, blocksLeft,
                   confirmed, snapRefs, lastAction, mcpPolicyCalls, completion>>

MCPNext ==
    \/ MCPLoop
    \/ MCPPolicyCall
    \/ MCPTool
    \/ MCPPressEnter
    \/ MCPCheck

(***************************************************************************)
(* MCPClaudeJobAgent.applyToJob: the conversation with the Policy          *)
(*                                                                         *)
(* The same loop as above, followed for what it appends to                 *)
(* this.conversationHistory and for the messages it sends.  A message is   *)
(* known by its role and by the type of its content.                       *)
(***************************************************************************)

\* Iterations of the loop a behaviour goes through.
MaxExchanges == 6

\* this.conversationHistory.slice(-10)
historyWindow == 10

UserText == [role |-> "user", content |-> "text"]
AssistantText == [role |-> "assistant", content |-> "text"]
AssistantToolUse == [role |-> "assistant", content |-> "tool_use"]
ToolResults == [role |-> "user", content |-> "tool_result"]

Max(a, b) == IF a > b THEN a ELSE b

Min(a, b) == IF a < b THEN a ELSE b

\* Array.prototype.slice(start) of JavaScript.
slice(array, start) ==
    LET from == IF start < 0 THEN Max(Len(array) + start, 0)
                ELSE Min(start, Len(array))
    IN  SubSeq(array, from + 1, Len(array))

\* The initial message is pushed before the loop.
ConvInit ==
    /\ conversationHistory = <<UserText>>
    /\ recentHistory = <<>>
    /\ convPc = "loop"
    /\ convIteration = 0
    /\ convComplete = FALSE

ConvIdle ==
    /\ conversationHistory = <<>>
    /\ recentHistory = <<>>
    /\ convPc = "loop"
    /\ convIteration = 0
    /\ convComplete = FALSE

\* while (!taskComplete && iteration < this.maxIterations) { iteration++; ...
ConvLoop ==
    /\ component = "conversation"
    /\ convPc = "loop"
    /\ IF ~convComplete /\ convIteration < maxIterations
         THEN /\ convIteration < MaxExchanges
              /\ convIteration' = convIteration + 1
              /\ convPc' = "call"
         ELSE /\ convPc' = "done"
              /\ UNCHANGED convIteration
    /\ UNCHANGED <<component, node, readerVars, triageVars, mainVars, simpleVars,
                   clientVars, llmVars, mcpVars, conversationHistory,
                   recentHistory, convComplete>>

\* The request that sends the whole history.
ConvRequest_WholeHistory ==
    /\ component = "conversation"
    /\ convPc = "call"
    /\ recentHistory' = conversationHistory
    /\ convPc' = "answer"
    /\ UNCHANGED <<component, node, readerVars, triageVars, mainVars, simpleVars,
                   clientVars, llmVars, mcpVars, conversationHistory,
                   convIteration, convComplete>>

\* recentHistory = this.conversationHistory.slice(-10) and the call of
\* messages.create with it.
ConvRequest ==
    /\ component = "conversation"
    /\ convPc = "call"
    /\ recentHistory' = slice(conversationHistory, -historyWindow)
    /\ convPc' = "answer"
    /\ UNCHANGED <<component, node, readerVars, triageVars, mainVars, simpleVars,
                   clientVars, llmVars, mcpVars, conversationHistory,
                   convIteration, convComplete>>

\* The rest of the try block: the response is pushed, then the tool results
\* unless task_complete was among the tool calls; or the call throws.
ConvAnswer ==
    /\ component = "conversation"
    /\ convPc = "answer"
    /\ \/ \* stop_reason === 'tool_use'
          \E complete \in BOOLEAN :
             /\ conversationHistory' =
                    conversationHistory \o <<AssistantToolUse>>
                        \o (IF complete THEN <<>> ELSE <<ToolResults>>)
             /\ convComplete' = (complete \/ convIteration >= maxIterations)
             /\ convPc' = "loop"
       \/ \* stop_reason === 'end_turn', the text asks for the confirmation
          /\ conversationHistory' = Append(conversationHistory, AssistantText)
          /\ convPc' = "awaitEnter"
          /\ UNCHANGED convComplete
       \/ \* stop_reason === 'end_turn' with other text, or another stop_reason
          /\ conversationHistory' = Append(conversationHistory, AssistantText)
          /\ convComplete' = (convIteration >= maxIterations)
          /\ convPc' = "loop"
       \/ \* the call throws: the catch block of the loop
          /\ convComplete' = TRUE
          /\ convPc' = "loop"
          /\ UNCHANGED conversationHistory
    /\ UNCHANGED <<component, node, readerVars, triageVars, mainVars, simpleVars,
                   clientVars, llmVars, mcpVars, recentHistory, convIteration>>

\* The user presses Enter: the confirmation is pushed as a user message.
ConvPressEnter ==
    /\ component = "conversation"
    /\ convPc = "awaitEnter"
    /\ conversationHistory' = Append(conversationHistory, UserText)
    /\ convComplete' = (convIteration >= maxIterations)
    /\ convPc' = "loop"
    /\ UNCHANGED <<component, node, readerVars, triageVars, mainVars, simpleVars,
                   clientVars, llmVars, mcpVars, recentHistory, convIteration>>

ConvNext ==
    \/ ConvLoop
    \/ ConvRequest
    \/ ConvAnswer
    \/ ConvPressEnter

(***************************************************************************)
(* SnapshotProcessor and MCPBrowserToolExecutor.takeSnapshot               *)
(*                                                                         *)
(* A snapshot is a sequence of lines.  A line is known by its indentation  *)
(* and by its kind, which stands for the substrings the code looks for:    *)
(*   "dialog"    - dialog "Apply to ..."                                   *)
(*   "iframe"    - iframe                                                  *)
(*   "button"    - button "Next" [ref=e7]                                  *)
(*   "easy"      - link "Easy Apply to ..." [ref=e5]                       *)
(*   "premium"   - button "Easy Apply with Premium" [ref=e6]               *)
(*   "popup"     - generic "popup"                                         *)
(*   "review"    - heading "Review"                                        *)
(*   "text"      - text "..." of fewer than 100 characters                 *)
(*   "longText"  - text "..." of 100 characters or more                    *)
(*   "nav"       - link "Jobs" ... - link "Messaging"                      *)
(*   "listRun"   five or more consecutive - listitem lines                 *)
(* and, in outputs only, the texts the code inserts:                       *)
(*   "navRemoved"      ... [Navigation removed] ...                        *)
(*   "listShort"       first item and ... [N more items] ...               *)
(*   "markAfter"       ... [Content after modal truncated. Focus on the    *)
(*                     modal/dialog above.]                                *)
(*   "markBackground"  [Background truncated...]                           *)
(*   "markTruncated"   ... [Snapshot truncated. Original: n chars. ...]    *)
(*   "markEarlier"     [Earlier content truncated...]                      *)
(* Lengths are counted in lines: every line, inserted ones included, is    *)
(* one unit of text, and the budgets of takeSnapshot are scaled to match.  *)
(***************************************************************************)

MaxLines == 4          \* lines of a raw snapshot
MaxIndent == 1         \* deepest indentation of a raw snapshot
MaxSnapshots == 2      \* calls of takeSnapshot on one executor
FormMaxLength == 1     \* maxLength when pageState is 'form' (10000 characters)
PageMaxLength == 2     \* maxLength otherwise (12000 characters)

PageStates == {"initial", "form", "review"}

TreeKinds == {"dialog", "iframe", "button", "easy", "premium"}

FlatKinds == {"dialog", "popup", "review", "easy", "text", "longText", "nav",
              "listRun"}

Line(indent, kind, n) == [indent |-> indent, kind |-> kind, n |-> n]

SeqsUpTo(S, n) == UNION {[1..k -> S] : k \in 0..n}

\* An accessibility tree: the root level first, a child one level below its
\* parent.
WellFormed(lines) ==
    /\ Len(lines) > 0 => lines[1].indent = 0
    /\ \A i \in 2..Len(lines) : lines[i].indent <= lines[i-1].indent + 1

TreeSnapshots ==
    {lines \in SeqsUpTo({Line(i, k, 0) : i \in 0..MaxIndent, k \in TreeKinds},
                        MaxLines) : WellFormed(lines)}

FlatSnapshots == SeqsUpTo({Line(0, k, 0) : k \in FlatKinds}, MaxLines)

\* ---- SnapshotProcessor ----

\* trimmed.startsWith('- button') || trimmed.startsWith('- link')
StartsWithButtonOrLink(line) == line.kind \in {"button", "easy", "premium"}

\* line.toLowerCase().includes('easy apply')
IncludesEasyApply(line) == line.kind \in {"easy", "premium"}

filterForJobPage(snapshot) ==
    SelectSeq(snapshot,
              LAMBDA line : StartsWithButtonOrLink(line) /\ IncludesEasyApply(line))

\* The lines removeNoise skips: '/url:' or one of its lower-case patterns
\* ('premium', 'navigation', 'banner', ...).
IsNoise(line) == line.kind \in {"premium", "nav", "navRemoved"}

removeNoise(snapshot) == SelectSeq(snapshot, LAMBDA line : ~IsNoise(line))

IncludesIframe(line) == line.kind = "iframe"

IncludesDialog(line) == line.kind \in {"dialog", "markAfter"}

NoScan ==
    [inIframe |-> FALSE, iframeIndent |-> -1, inDialog |-> FALSE,
     dialogIndent |-> -1, filtered |-> <<>>]

\* The for loop of filterForModal from line i on; every line of a snapshot
\* starts with '-'.
RECURSIVE ModalScan(_, _, _)
ModalScan(lines, i, st) ==
    IF i > Len(lines) THEN st.filtered
    ELSE LET line == lines[i]
             push == [st EXCEPT !.filtered = Append(@, line)]
         IN  IF IncludesIframe(line) /\ ~st.inIframe
             THEN ModalScan(lines, i + 1,
                            [push EXCEPT !.inIframe = TRUE,
                                         !.iframeIndent = line.indent])
             ELSE IF st.inIframe
             THEN IF line.indent <= st.iframeIndent /\ ~IncludesIframe(line)
                  THEN st.filtered
                  ELSE ModalScan(lines, i + 1, push)
             ELSE IF IncludesDialog(line) /\ ~st.inDialog
             THEN ModalScan(lines, i + 1,
                            [push EXCEPT !.inDialog = TRUE,
                                         !.dialogIndent = line.indent])
             ELSE IF st.inDialog
             THEN IF line.indent <= st.dialogIndent /\ ~IncludesDialog(line)
                  THEN st.filtered
                  ELSE ModalScan(lines, i + 1, push)
             ELSE ModalScan(lines, i + 1, st)

\* The fallback of filterForModal: '- textbox', '- combobox', '- textarea',
\* '- button', '- heading'.
IsFormLine(line) == line.kind \in {"button", "premium", "review"}

filterForModal(snapshot) ==
    LET scanned == ModalScan(snapshot, 1, NoScan)
    IN  IF Len(scanned) = 0 THEN SelectSeq(snapshot, IsFormLine) ELSE scanned

\* ---- MCPBrowserToolExecutor ----

FilterLine(line, count) ==
    IF line.kind = "nav" /\ count > 1 THEN Line(line.indent, "navRemoved", 0)
    ELSE IF line.kind = "longText" THEN Line(line.indent, "text", 0)
    ELSE IF line.kind = "listRun" THEN Line(line.indent, "listShort", 0)
    ELSE line

filterSnapshot(snapshot, count) ==
    [i \in 1..Len(snapshot) |-> FilterLine(snapshot[i], count)]

Kinds(snapshot) == {snapshot[i].kind : i \in 1..Len(snapshot)}

detectPageState(snapshot, current) ==
    IF "review" \in Kinds(snapshot) THEN "review"
    ELSE IF Kinds(snapshot) \cap {"dialog", "markAfter"} # {} THEN "form"
    ELSE IF Kinds(snapshot) \cap {"easy", "premium"} # {} THEN "initial"
    ELSE current

maxLength(state) == IF state = "form" THEN FormMaxLength ELSE PageMaxLength

\* modalKeywords.some(keyword => lower.includes(keyword))
hasModal(snapshot) == Kinds(snapshot) \cap {"dialog", "popup", "markAfter"} # {}

IndexOfKind(snapshot, kind) ==
    IF kind \in Kinds(snapshot)
    THEN (CHOOSE i \in 1..Len(snapshot) :
              /\ snapshot[i].kind = kind
              /\ \A j \in 1..(i - 1) : snapshot[j].kind # kind) - 1
    ELSE -1

\* The first keyword of the list that occurs: '- dialog', then the headings.
modalStart(snapshot) ==
    IF IndexOfKind(snapshot, "dialog") # -1 THEN IndexOfKind(snapshot, "dialog")
    ELSE IndexOfKind(snapshot, "review")

substring(text, from, to) == SubSeq(text, from + 1, to)

\* The text takeSnapshot returns for the filtered text, in the page state
\* just detected.
truncate(text, state) ==
    LET max == maxLength(state)
        len == Len(text)
    IN  IF hasModal(text)
        THEN IF modalStart(text) # -1
             THEN LET modalEnd == Min(modalStart(text) + max, len)
                  IN  substring(text, modalStart(text), modalEnd)
                      \o (IF modalEnd < len
                          THEN <<Line(0, "markAfter", 0)>> ELSE <<>>)
             ELSE IF len > max
             THEN <<Line(0, "markBackground", 0)>> \o substring(text, len - max, len)
             ELSE text
        ELSE IF len > max
        THEN IF state = "initial"
             THEN substring(text, 0, max) \o <<Line(0, "markTruncated", len)>>
             ELSE <<Line(0, "markEarlier", 0)>> \o substring(text, len - max, len)
        ELSE text

\* What a call of takeSnapshot leaves behind and returns, the page giving
\* text and the executor being at (count, state).
takeSnapshot(text, count, state) ==
    LET newState == detectPageState(text, state)
        filteredSnapshot == filterSnapshot(text, count + 1)
    IN  [snapshotCount |-> count + 1,
         pageState |-> newState,
         filtered |-> filteredSnapshot,
         snapshot |-> truncate(filteredSnapshot, newState)]

TriageIdle ==
    /\ raw = <<>>
    /\ filtered = <<>>
    /\ triaged = <<>>
    /\ stage = "input"
    /\ pageState = "initial"
    /\ snapshotCount = 0

\* LLMAgent._findAndClickEasyApply: the job page is reduced for the Policy.
FilterJobPage ==
    /\ component = "processor"
    /\ stage = "input"
    /\ filtered' = filterForJobPage(raw)
    /\ triaged' = removeNoise(filtered')
    /\ stage' = "jobPage"
    /\ UNCHANGED <<component, node, readerVars, appVars, clientVars, llmVars, mcpVars,
                   raw, pageState, snapshotCount>>

\* LLMAgent._navigateApplicationForm: the form is reduced for the Policy.
FilterModal ==
    /\ component = "processor"
    /\ stage = "input"
    /\ filtered' = filterForModal(raw)
    /\ triaged' = removeNoise(filtered')
    /\ stage' = "modal"
    /\ UNCHANGED <<component, node, readerVars, appVars, clientVars, llmVars, mcpVars,
                   raw, pageState, snapshotCount>>

\* MCPBrowserToolExecutor.takeSnapshot, the page still giving the same text.
TakeSnapshot ==
    /\ component = "executor"
    /\ snapshotCount < MaxSnapshots
    /\ LET r == takeSnapshot(raw, snapshotCount, pageState)
       IN  /\ snapshotCount' = r.snapshotCount
           /\ pageState' = r.pageState
           /\ filtered' = r.filtered
           /\ triaged' = r.snapshot
    /\ stage' = "snapshot"
    /\ UNCHANGED <<component, node, readerVars, appVars, clientVars, llmVars, mcpVars,
                   raw>>

TriageNext ==
    \/ FilterJobPage
    \/ FilterModal
    \/ TakeSnapshot

(***************************************************************************)
(* JobApplicationAgent: main of src/src/index.js                           *)
(***************************************************************************)

MainInit ==
    /\ mainPc = "init"
    /\ startOk = FALSE
    /\ wire = {}

\* init() up to the first request of start(): the profile is loaded and the
\* server spawned, start() sends initialize; or the API key or the profile is
\* missing and process.exit(1) ends the run.
MainStart ==
    /\ component = "main"
    /\ mainPc = "init"
    /\ \/ /\ mainPc' = "initialize"
          /\ wire' = wire \cup {"initialize"}
       \/ /\ mainPc' = "exited"
          /\ UNCHANGED wire
    /\ UNCHANGED <<component, node, readerVars, triageVars, convVars, simpleVars,
                   clientVars, llmVars, mcpVars, startOk>>

\* await this.initialize() in start(): the result arrives and tools/list is
\* sent, or the promise is rejected (error response, timeout) and the catch
\* block of init() returns false.
MainInitialize ==
    /\ component = "main"
    /\ mainPc = "initialize"
    /\ \/ /\ mainPc' = "listTools"
          /\ wire' = wire \cup {"tools/list"}
       \/ /\ mainPc' = "authenticate"
          /\ UNCHANGED wire
    /\ UNCHANGED <<component, node, readerVars, triageVars, convVars, simpleVars,
                   clientVars, llmVars, mcpVars, startOk>>

\* await this.listTools() in start(): start() returns and init() creates the
\* agent and returns true, or the promise is rejected and init() returns
\* false.  main() does not look at what init() returns.
MainListTools ==
    /\ component = "main"
    /\ mainPc = "listTools"
    /\ startOk' \in BOOLEAN
    /\ mainPc' = "authenticate"
    /\ UNCHANGED <<component, node, readerVars, triageVars, convVars, simpleVars,
                   clientVars, llmVars, mcpVars, wire>>

\* authenticate(): this.mcpClient.navigate('https://www.linkedin.com') is a
\* tools/call request; its error is thrown on to main(), which cleans up.
MainAuthenticate ==
    /\ component = "main"
    /\ mainPc = "authenticate"
    /\ wire' = wire \cup {"tools/call"}
    /\ mainPc' \in {"login", "cleanup"}
    /\ UNCHANGED <<component, node, readerVars, triageVars, convVars, simpleVars,
                   clientVars, llmVars, mcpVars, startOk>>

\* waitForUserInput in authenticate(): Enter, or Ctrl+C and process.exit(0).
MainLogin ==
    /\ component = "main"
    /\ mainPc = "login"
    /\ mainPc' \in {"apply", "exited"}
    /\ UNCHANGED <<component, node, readerVars, triageVars, convVars, simpleVars,
                   clientVars, llmVars, mcpVars, startOk, wire>>

\* applyToJob(): the agent runs and issues its tool calls; with no agent
\* created the TypeError is caught and false returned.
MainApply ==
    /\ component = "main"
    /\ mainPc = "apply"
    /\ wire' = IF startOk THEN wire \cup {"tools/call"} ELSE wire
    /\ mainPc' = "cleanup"
    /\ UNCHANGED <<component, node, readerVars, triageVars, convVars, simpleVars,
                   clientVars, llmVars, mcpVars, startOk>>

\* finally { await agent.cleanup(); process.exit(0) }
MainCleanup ==
    /\ component = "main"
    /\ mainPc = "cleanup"
    /\ mainPc' = "exited"
    /\ UNCHANGED <<component, node, readerVars, triageVars, convVars, simpleVars,
                   clientVars, llmVars, mcpVars, startOk, wire>>

MainNext ==
    \/ MainStart
    \/ MainInitialize
    \/ MainListTools
    \/ MainAuthenticate
    \/ MainLogin
    \/ MainApply
    \/ MainCleanup

(***************************************************************************)
(* SimpleJobAgent.applyToJob (src/src/agent/browserTools.js)               *)
(*                                                                         *)
(* A snapshot is a sequence of lines - button "label" [ref=eN], each known *)
(* by its label; a label is a sequence of pieces of text, "'" being an     *)
(* apostrophe in it and "Submit" standing for "Submit application".        *)
(***************************************************************************)

MaxWords == 3          \* pieces of a label
MaxButtons == 1        \* button lines of a snapshot

Words == {"Easy Apply", "Next", "Submit", "'"}

Labels == SeqsUpTo(Words, MaxWords) \ {<<>>}

ButtonSnapshots == SeqsUpTo(Labels, MaxButtons)

\* for (let step = 1; step <= 10; step++)
maxFormSteps == 10

RECURSIVE UpToQuote(_)
UpToQuote(text) ==
    IF text = <<>> \/ Head(text) = "'" THEN <<>>
    ELSE <<Head(text)>> \o UpToQuote(Tail(text))

\* line.match(/["']([^"']+)["']/)[1] for the line of a button with this
\* label: the text between the first quote character that is followed by
\* text and the next quote character; <<>> when nothing matches.
RECURSIVE labelMatch(_)
labelMatch(label) ==
    IF label = <<>> THEN <<>>
    ELSE IF Head(label) = "'" THEN labelMatch(Tail(label))
    ELSE UpToQuote(label)

\* label.toLowerCase().includes(searchText.toLowerCase())
includes(label, searchText) == \E i \in 1..Len(label) : label[i] = searchText

\* findButton(snapshot, buttonTexts): the index of the first line whose
\* matched label includes one of the texts, 0 when there is none.
findButton(snapshot, buttonTexts) ==
    LET hits == {i \in 1..Len(snapshot) :
                    \E t \in buttonTexts : includes(labelMatch(snapshot[i]), t)}
    IN  IF hits = {} THEN 0
        ELSE CHOOSE i \in hits : \A j \in hits : i <= j

SimpleInit ==
    /\ simplePc = "start"
    /\ step = 0
    /\ clicked = <<>>

\* Steps 1 and 2: navigate, snapshot, find and click Easy Apply.  Any error
\* is caught and ends the run.
SimpleStart ==
    /\ component = "simple"
    /\ simplePc = "start"
    /\ \E snapshot \in ButtonSnapshots :
          LET easyApplyBtn == findButton(snapshot, {"Easy Apply"})
          IN  IF easyApplyBtn = 0
              THEN /\ simplePc' = "done"
                   /\ UNCHANGED <<step, clicked>>
              ELSE \/ /\ clicked' = snapshot[easyApplyBtn]
                      /\ step' = 1
                      /\ simplePc' = "loop"
                   \/ /\ simplePc' = "done"
                      /\ UNCHANGED <<step, clicked>>
    /\ UNCHANGED <<component, node, readerVars, triageVars, convVars, mainVars,
                   clientVars, llmVars, mcpVars>>

\* One step of the for loop: snapshot, fill (its errors are swallowed),
\* snapshot, find the next button; break when there is none or when its
\* matched label includes 'submit', otherwise click it.
SimpleStep ==
    /\ component = "simple"
    /\ simplePc = "loop"
    /\ IF step <= maxFormSteps
         THEN \E snapshot \in ButtonSnapshots :
                LET nextBtn == findButton(snapshot, {"Next", "Submit"})
                IN  IF nextBtn = 0
                    THEN /\ simplePc' = "done"
                         /\ UNCHANGED <<step, clicked>>
                    ELSE IF includes(labelMatch(snapshot[nextBtn]), "Submit")
                    THEN /\ simplePc' = "done"
                         /\ UNCHANGED <<step, clicked>>
                    ELSE \/ /\ clicked' = snapshot[nextBtn]
                            /\ step' = step + 1
                            /\ UNCHANGED simplePc
                         \/ /\ simplePc' = "done"
                            /\ UNCHANGED <<step, clicked>>
         ELSE /\ simplePc' = "done"
              /\ UNCHANGED <<step, clicked>>
    /\ UNCHANGED <<component, node, readerVars, triageVars, convVars, mainVars,
                   clientVars, llmVars, mcpVars>>

SimpleNext ==
    \/ SimpleStart
    \/ SimpleStep

Init ==
    /\ component \in {"client", "reader", "llm", "mcp", "conversation", "main"}
    /\ policy \in IF component = "mcp" THEN {"free", "sameClick"} ELSE {"free"}
    /\ ClientInit
    /\ ReaderInit
    /\ LLMInit
    /\ MCPInit
    /\ TriageIdle
    /\ IF component = "conversation" THEN ConvInit ELSE ConvIdle
    /\ MainInit
    /\ SimpleInit

Next ==
    \/ ClientNext
    \/ Interrupt
    \/ ReaderNext
    \/ LLMNext
    \/ MCPNext
    \/ ConvNext
    \/ MainNext

Spec == Init /\ [][Next]_vars

ClientOnly == Init /\ component = "client"

AgentsOnly == Init /\ component \in {"llm", "mcp"}

AgentNext == LLMNext \/ MCPNext

\* The processor is given any snapshot of the page.
ProcessorInit ==
    /\ component = "processor"
    /\ raw \in TreeSnapshots
    /\ filtered = <<>>
    /\ triaged = <<>>
    /\ stage = "input"
    /\ pageState = "initial"
    /\ snapshotCount = 0

\* The executor is new, or in a state earlier snapshots left it in, and the
\* page gives any text.
ExecutorInit ==
    /\ component = "executor"
    /\ raw \in FlatSnapshots
    /\ filtered = <<>>
    /\ triaged = <<>>
    /\ stage = "input"
    /\ snapshotCount \in 0..(MaxSnapshots - 1)
    /\ pageState \in IF snapshotCount = 0 THEN {"initial"} ELSE PageStates

TriageInit ==
    /\ policy = "free"
    /\ ClientInit
    /\ ReaderInit
    /\ LLMInit
    /\ MCPInit
    /\ ConvIdle
    /\ MainInit
    /\ SimpleInit
    /\ ProcessorInit \/ ExecutorInit

\* SimpleJobAgent is given a job to apply to.
SimpleOnly ==
    /\ component = "simple"
    /\ policy = "free"
    /\ ClientInit
    /\ ReaderInit
    /\ LLMInit
    /\ MCPInit
    /\ TriageIdle
    /\ ConvIdle
    /\ MainInit
    /\ SimpleInit

\* SimpleJobAgent alone.
SimpleSpec == SimpleOnly /\ [][SimpleNext]_vars

\* The reduction of snapshots alone.
TriageSpec == TriageInit /\ [][TriageNext]_vars

\* The client alone.  Node runs every armed timer callback.
ClientFairSpec ==
    /\ ClientOnly
    /\ [][ClientNext]_vars
    /\ WF_vars(\E id \in Ids : Timeout(id))

\* The agents alone.  The loop of applyToJob runs on as long as the Policy
\* answers; the user pressing Enter is not assumed.
AgentFairSpec ==
    /\ AgentsOnly
    /\ [][AgentNext]_vars
    /\ WF_vars(MCPLoop)
    /\ WF_vars(MCPPolicyCall)
    /\ WF_vars(MCPTool)
    /\ WF_vars(MCPCheck)

\* The agents alone, every step of the orchestrator's own code being taken
\* when it can be; neither an answer of the Policy nor a key press of the
\* user is assumed.
OrchestratorFairSpec ==
    /\ AgentsOnly
    /\ [][AgentNext]_vars
    /\ WF_vars(LLMLoop)
    /\ WF_vars(LLMApply)
    /\ WF_vars(LLMSubmitClick)
    /\ WF_vars(LLMAfterLoop)
    /\ WF_vars(MCPLoop)
    /\ WF_vars(MCPTool)
    /\ WF_vars(MCPCheck)

(***************************************************************************)
(* Properties of PlaywrightMCPClient                                       *)
(***************************************************************************)

\* C1: every sendRequest call has its promise settled exactly once: resolve
\* or reject is never invoked twice for one id, whatever the interleaving of
\* responses, duplicates, timeouts and the exit of the child, and every
\* issued call is eventually settled.
C1_SettledExactlyOnce ==
    /\ [](\A id \in Ids : Len(settled[id]) <= 1)
    /\ \A id \in Ids : (messageId >= id) ~> (Len(settled[id]) = 1)

\* A response settled the call, the child exited, and the timer of the same
\* call ran afterwards without settling it again.
C1_Witness ==
    /\ last.op = "timeout"
    /\ ~last.wasPending
    /\ child = "exited"
    /\ settled[last.id] = <<"result">>

\* C6: the step in which the child exits, by itself or after close(), rejects
\* every request that is pending and still unsettled, and removes it from the
\* pending table.
C6_ExitRejectsAllPending ==
    [][(child = "up" /\ child' = "exited") =>
          \A id \in pendingRequests :
              Len(settled[id]) = 0 =>
                  /\ Len(settled'[id]) = 1
                  /\ id \notin pendingRequests']_vars

\* C7: a request written with a timer armed is eventually out of the pending
\* table, rejected with the timeout error unless a response settled it; the
\* timeout that finds the entry removes it and rejects with the timeout.
C7_TimeoutRejectsAndRemoves ==
    /\ \A id \in Ids :
         (id \in timers) ~>
            (/\ id \notin timers
             /\ id \notin pendingRequests
             /\ settled[id] \in {<<"timeout">>, <<"result">>, <<"error">>})
    /\ [](last.op = "timeout" /\ last.wasPending =>
            /\ settled[last.id] = <<"timeout">>
            /\ last.id \notin pendingRequests)

\* The only request in flight never got a response and timed out: the table
\* is empty afterwards.
C7_Witness ==
    /\ last.op = "timeout"
    /\ last.wasPending
    /\ received = {last.id}
    /\ settled[last.id] = <<"timeout">>
    /\ pendingRequests = {}

\* C8: a handleMessage step settles the pending request of the message's id
\* with the message's result or error and touches no other request; a message
\* whose id is not pending changes neither the table nor any settlement.
C8_ResponseSettlesOnlyItsRequest ==
    [][last'.op = "handleMessage" =>
         IF last'.id # NoId /\ last'.id \in pendingRequests
           THEN /\ pendingRequests' = pendingRequests \ {last'.id}
                /\ settled' = [settled EXCEPT ![last'.id] =
                     Append(@, IF last'.error THEN "error" ELSE "result")]
           ELSE /\ pendingRequests' = pendingRequests
                /\ settled' = settled]_vars

\* Two requests in flight, the response to the younger one arrives first and
\* settles it with its error while the older one stays pending.
C8_Witness ==
    /\ last.op = "handleMessage"
    /\ last.wasPending
    /\ last.id = 2
    /\ settled[2] = <<"error">>
    /\ settled[1] = <<>>
    /\ 1 \in pendingRequests

(***************************************************************************)
(* Properties of the agent loops                                           *)
(***************************************************************************)

\* C2: a click issued for a submit decision was issued after Enter had been
\* pressed at that decision's confirmation wait, and while _handleSubmit
\* waits for Enter no click is issued.
C2_SubmitWaitsForConfirmation ==
    /\ [](lastClick.via = "submit" => lastClick.confirmed)
    /\ [][llmPc = "awaitConfirm" => lastClick' = lastClick]_vars

\* The submit decision was confirmed and its click went to the submit control.
C2_Witness ==
    /\ lastClick.via = "submit"
    /\ lastClick.target = SubmitControl
    /\ lastClick.confirmed
    /\ llmPc = "afterLoop"

\* C3: no click on the final submit control is issued without the
\* confirmation having been given first, whatever the decisions are.
C3_SubmitControlNeverClickedUnconfirmed ==
    /\ lastClick.target = SubmitControl => lastClick.confirmed
    /\ (lastAction.tool = "click" /\ lastAction.ref = SubmitRef) => lastAction.confirmed

\* C4: every request sent with a ref carries a ref shown by the snapshot that
\* was returned to the Policy last.
C4_RefsComeFromLastSnapshot ==
    lastAction.tool # "none" => lastAction.inSnapshot

\* C5: a run makes at most maxSteps Policy calls in the form loop of LLMAgent
\* and at most maxIterations Policy calls in MCPClaudeJobAgent.
C5_PolicyCallsBounded ==
    /\ llmPolicyCalls <= maxSteps
    /\ mcpPolicyCalls <= maxIterations

\* The Policy clicked the same control at every step until the bound ended
\* the form loop after maxSteps calls.
C5_Witness ==
    /\ llmPc = "done"
    /\ llmPolicyCalls = maxSteps
    /\ decision.action = "click"
    /\ lastClick.via = "click"

\* The reasons of the errors thrown inside the form loop of LLMAgent.
ThrownInLoop == {"Invalid JSON response from Claude", "Could not click element",
                 "error_message"}

\* C9: a run that used up its iterations without an error being thrown ends
\* failed with the max-iterations reason, and under a Policy that always
\* returns a click on the same ref the run ends so after maxIterations calls.
C9_MaxIterationsEndsInSafetyAbort ==
    /\ [](mcpPc = "done" /\ iteration = maxIterations
             /\ finalResult.message # "error.message"
            => finalResult = MaxIterationsResult)
    /\ [](llmPc = "done" /\ stepCount = maxSteps
             /\ llmResult.reason \notin ThrownInLoop
            => llmResult = Failed("Exceeded maximum steps - possible infinite loop"))
    /\ (component = "mcp" /\ policy = "sameClick")
          ~> (/\ mcpPc = "done"
              /\ finalResult = MaxIterationsResult
              /\ mcpPolicyCalls = maxIterations)

\* The same-ref Policy has been asked maxIterations times and the run is over.
C9_Witness ==
    /\ policy = "sameClick"
    /\ mcpPc = "done"
    /\ mcpPolicyCalls = maxIterations
    /\ lastAction.ref = "e5"
    /\ finalResult = MaxIterationsResult

\* C10: a run whose Policy completed the task (task_complete reporting
\* success, or a submit decision confirmed and clicked) ends with success.
C10_CompletionReportsSuccess ==
    /\ (llmPc = "done" /\ lastClick.via = "submit") => llmResult.status = "success"
    /\ (mcpPc = "done" /\ completion = "success") => finalResult.success

(***************************************************************************)
(* Error handling and outcome of the agent loops                           *)
(***************************************************************************)

\* C11: a decision that names an element the page does not show does not end
\* the run: no run fails with the click of such an element as its reason.
C11_UnresolvedElementNotFatal ==
    llmResult.reason # "Could not click element"

C13_UnknownDecisionRejected ==
    (llmPolicyCalls > 0 /\ decision.action = "other")
        => (llmPc = "done" /\ llmResult.status = "failed")

C15_PolicyWaitEnds ==
    /\ (mcpPc = "call") ~> (mcpPc # "call")
    /\ (llmPc = "decide") ~> (llmPc # "decide")

(***************************************************************************)
(* Cancellation, close() and request ids                                   *)
(***************************************************************************)

\* C16: the step that interrupts the agent terminates a child that is up and
\* rejects every request still unsettled, and nothing is sent afterwards.
C16_InterruptCleansUp ==
    /\ [][(node = "running" /\ node' = "exited") =>
            /\ child = "up" => (process' = "null" \/ child' = "exited")
            /\ \A id \in pendingRequests :
                  Len(settled[id]) = 0 => Len(settled'[id]) = 1]_vars
    /\ [][node = "exited" => messageId' = messageId]_vars

\* C17: when close() has completed, the child has exited.
C17_CloseWaitsForExit ==
    last.op = "close" => child = "exited"

\* C18: the counter never decreases, every sendRequest takes the counter's
\* next value, which is neither in the pending table nor settled, and the
\* table holds issued ids only.
C18_RequestIdsStrictlyIncrease ==
    /\ [][messageId' >= messageId]_vars
    /\ [][(last'.op = "sendRequest" /\ last' # last) =>
            /\ last'.id = messageId + 1
            /\ messageId' = messageId + 1
            /\ last'.id \notin pendingRequests
            /\ settled[last'.id] = <<>>]_vars
    /\ [](pendingRequests \subseteq 1..messageId)

\* The third request was issued while the first was pending and the second
\* had been answered.
C18_Witness ==
    /\ last.op = "sendRequest"
    /\ last.id = 3
    /\ messageId = 3
    /\ 1 \in pendingRequests
    /\ settled[2] = <<"result">>

(***************************************************************************)
(* Properties of handleData                                                *)
(***************************************************************************)

\* The complete lines of a text: every piece of the split but the last.
LinesOf(text) == SubSeq(split(text), 1, Len(split(text)) - 1)

\* The messages that handleMessage gets for a sequence of lines.
MessagesOf(lines) ==
    ForLines(lines, [pending |-> {}, settled |-> settled, dispatched |-> <<>>]).dispatched

\* C19: however the stream was cut into data events, once all of it has been
\* delivered the messages dispatched are those of the complete lines of the
\* stream the child wrote, and the buffer holds the stream's unfinished line.
C19_ChunkingInsensitive ==
    pipe = <<>> =>
        /\ dispatched = MessagesOf(LinesOf(sent))
        /\ buffer = split(sent)[Len(split(sent))]

\* C20: the messages dispatched are those of all the complete lines received
\* that parse, whatever lines that do not parse stand between them; each of
\* them settled its request, and the pending table lost these requests only.
C20_MalformedLineDropped ==
    /\ dispatched = MessagesOf(LinesOf(decoded))
    /\ \A i \in 1..Len(dispatched) :
          /\ dispatched[i].id \notin pendingRequests
          /\ Len(settled[dispatched[i].id]) = 1
    /\ component = "reader" =>
          pendingRequests =
              (1..messageId) \ {dispatched[i].id : i \in 1..Len(dispatched)}

\* A line that does not parse came first; the response that followed it
\* settled request 1, and request 2 is still pending.
C20_Witness ==
    /\ sent = <<"x", "LF", "1", "LF">>
    /\ pipe = <<>>
    /\ dispatched = <<[id |-> 1, text |-> <<>>]>>
    /\ settled[1] = <<"result">>
    /\ pendingRequests = {2}

(***************************************************************************)
(* Properties of the reduction of snapshots                                *)
(***************************************************************************)

\* C21: the snapshot takeSnapshot returns is never longer than the budget
\* maxLength of the page state, the truncation markers it inserts included.
C21_SnapshotWithinBudget ==
    stage = "snapshot" => Len(triaged) <= maxLength(pageState)

\* C22: every pass is idempotent: filterForJobPage, filterForModal,
\* removeNoise and filterSnapshot return their own output unchanged, and so
\* does the budgeted truncation of takeSnapshot under the same budget.
C22_ReductionIdempotent ==
    /\ stage = "jobPage" => filterForJobPage(filtered) = filtered
    /\ stage = "modal" => filterForModal(filtered) = filtered
    /\ stage \in {"jobPage", "modal"} => removeNoise(triaged) = triaged
    /\ stage = "snapshot" => filterSnapshot(filtered, snapshotCount) = filtered
    /\ stage = "snapshot" => truncate(triaged, pageState) = triaged

\* C23: the snapshot takeSnapshot returns depends on the text of the page
\* only: it is the one a new executor returns for the same text, whatever the
\* snapshot counter and the page state earlier snapshots left behind.
C23_SnapshotDependsOnTextOnly ==
    stage = "snapshot" => triaged = takeSnapshot(raw, 0, "initial").snapshot

\* C24: removeNoise keeps every line of a button or link it is given,
\* whatever the label says.
C24_NoiseRemovalKeepsControls ==
    stage \in {"jobPage", "modal"} =>
        \A i \in 1..Len(filtered) :
            StartsWithButtonOrLink(filtered[i]) =>
                \E j \in 1..Len(triaged) : triaged[j] = filtered[i]

TruncationMarkers == {"markAfter", "markBackground", "markTruncated", "markEarlier"}

\* C25: when the snapshot takeSnapshot returns lacks some of the filtered
\* text, it contains a truncation marker.
C25_DroppedContentIsMarked ==
    stage = "snapshot" =>
        \/ triaged = filtered
        \/ Kinds(triaged) \cap TruncationMarkers # {}

\* C26: for a job page, filterForJobPage followed by removeNoise returns
\* exactly the Easy Apply button and link lines of the snapshot, in order.
C26_JobPageKeepsEasyApplyLines ==
    stage = "jobPage" =>
        triaged = SelectSeq(raw, LAMBDA line : line.kind \in {"easy", "premium"})

\* The lines below the first dialog line of the snapshot, down to the next
\* line that is not indented deeper than it.
InDialogSubtree(snapshot, i) ==
    LET d == IndexOfKind(snapshot, "dialog") + 1
    IN  /\ i > d
        /\ \A j \in (d + 1)..i : snapshot[j].indent > snapshot[d].indent

\* C27: for a snapshot with a dialog, filterForModal followed by removeNoise
\* returns the dialog line and every button line of the dialog's subtree.
C27_ModalKeepsDialogAndButtons ==
    stage = "modal" /\ "dialog" \in Kinds(raw) =>
        /\ "dialog" \in Kinds(triaged)
        /\ \A i \in 1..Len(raw) :
               InDialogSubtree(raw, i) /\ raw[i].kind \in {"button", "premium"} =>
                   \E j \in 1..Len(triaged) : triaged[j] = raw[i]

(***************************************************************************)
(* Properties of the observation of the page                               *)
(***************************************************************************)

\* C28: a click is issued on a page of which a snapshot was taken since the
\* last action on it: no two actions follow each other without a snapshot
\* between them.
C28_SnapshotBeforeEveryAction ==
    lastClick.target # "none" => lastClick.fresh

\* C29: a click or type_text on a ref the page does not have is not sent to
\* the browser a second time: the repeated decision is rejected.
C29_RepeatedRefRejected ==
    ~(lastAction.repeated /\ lastAction.ref = "e999")

\* C30: while _handlePause waits for the user no click is issued and the
\* Policy is not asked, and after the wait the Policy is asked and a decision
\* executed only on a snapshot taken since.
C30_PauseThenFreshSnapshot ==
    [][/\ llmPc = "awaitResume" =>
              /\ lastClick' = lastClick
              /\ llmPolicyCalls' = llmPolicyCalls
       /\ llmPc' \in {"decide", "apply"} => llmFresh']_vars

\* The user has resumed a paused application and the loop has taken its next
\* snapshot.
C30_Witness ==
    /\ decision.action = "pause_for_manual"
    /\ confirmation
    /\ llmPc = "decide"
    /\ llmFresh

\* C32: when the filtered text is longer than the budget, takeSnapshot keeps
\* its first maxLength lines in page state 'initial' and its last maxLength
\* lines in page states 'form' and 'review'.
C32_HeadForInitialTailOtherwise ==
    (stage = "snapshot" /\ Len(filtered) > maxLength(pageState)) =>
        LET max == maxLength(pageState)
            len == Len(filtered)
        IN  IF pageState = "initial"
            THEN /\ Len(triaged) >= max
                 /\ SubSeq(triaged, 1, max) = SubSeq(filtered, 1, max)
            ELSE /\ Len(triaged) >= max
                 /\ SubSeq(triaged, Len(triaged) - max + 1, Len(triaged))
                        = SubSeq(filtered, len - max + 1, len)

(***************************************************************************)
(* Properties of the conversation, of main and of the other agents         *)
(***************************************************************************)

\* C31: when a click on a ref the page does not have has failed and has been
\* tried again and failed again, the run ends as failed: it does not report
\* success.
C31_FailedRetryFailsTheRun ==
    (mcpPc = "done" /\ lastAction.repeated /\ lastAction.ref = "e999") =>
        ~finalResult.success

C34_NoPendingEntryWithoutTimer ==
    (last.op = "sendRequest" /\ child # "none" /\ last.id \in pendingRequests) =>
        last.id \in timers

\* C35: once task_complete has been seen no click or type_text is executed
\* any more.
C35_NoActionAfterTaskComplete ==
    [][completion # "none" => lastAction' = lastAction]_vars

\* C36: the messages of a request begin with a message of role user, and a
\* tool-result message among them comes right after the assistant message
\* with the tool calls it answers.
C36_WindowIsWellFormed ==
    recentHistory # <<>> =>
        /\ recentHistory[1].role = "user"
        /\ \A i \in 1..Len(recentHistory) :
               recentHistory[i].content = "tool_result" =>
                   /\ i > 1
                   /\ recentHistory[i - 1].content = "tool_use"

\* C37: a tools/call request is written to the MCP server only when start()
\* has returned.
C37_NoToolCallBeforeStart ==
    "tools/call" \in wire => startOk

\* C38: the button SimpleJobAgent clicks in a step of its loop has no
\* 'submit' in its label, and the loop goes through at most 10 steps.
C38_SimpleAgentNeverClicksSubmit ==
    /\ step >= 2 => \A i \in 1..Len(clicked) : clicked[i] # "Submit"
    /\ step <= maxFormSteps + 1

====
